---------------------------- MODULE Spec2Model ----------------------------
(***************************************************************************)
(* A model of main.go: three text files are read, reformatted to lines of  *)
(* 70 bytes and written to tmp/, one goroutine per file, the results       *)
(* handed to the main goroutine through one buffered channel.              *)
(*                                                                         *)
(* Bytes are one-character strings, a []byte is a sequence of them.        *)
(* The specifications of the module:                                       *)
(*   Spec           the run of main() with its goroutines (fan-out,        *)
(*                  fan-in), reads and writes that may fail included;      *)
(*   SpecFair       Spec, every goroutine scheduled fairly;                *)
(*   SpecCollector  Spec, only main scheduled fairly (goroutines may       *)
(*                  hang);                                                 *)
(*   SpecPlanned    the runs of Spec in which the scheduler lets the       *)
(*                  goroutines finish in an order picked at the start;     *)
(*   FormatSpec     the body of formatText on one input, statement by      *)
(*                  statement, over a bounded set of file contents.        *)
(***************************************************************************)
EXTENDS Integers, Sequences, FiniteSets, TLC

(***************************************************************************)
(* Bounds of the model.                                                    *)
(***************************************************************************)
\* the longest list of inputs main() is run with
MaxN == 3
\* FormatSpec: texts without whitespace of every length up to
\* MaxLines * LineWidth + 1
MaxLines == 3
\* FormatSpec: every text over Alphabet of at most this many bytes
MaxRawLen == 4

(***************************************************************************)
(* Program constants.                                                      *)
(***************************************************************************)
\* main.go:97-102, the literal 70
LineWidth == 70

NL == "\n"
SP == " "
TAB == "\t"

\* what \s matches in Go's regexp (RE2) syntax: [\t\n\f\r ]
Whitespace == {"\t", "\n", "\f", "\r", " "}

IsSpace(c) == c \in Whitespace

Letters(c, n) == [x \in 1..n |-> c]

(***************************************************************************)
(* formatText, lines 78-94: the four regexp.ReplaceAll rewrites.           *)
(* ReplaceAll replaces the leftmost match, then goes on after it           *)
(* (matches do not overlap); a match is leftmost-first, as in Perl.        *)
(***************************************************************************)

\* F applied to the value of v: the statement data = F(data). (The set
\* binds x to a value, which is then computed once.)
Then(v, F(_)) == CHOOSE out \in {F(x) : x \in {v}} : TRUE

\* the first index at or after i of a byte in set, Len(data) + 1 if there
\* is none: where the scan for the next match goes on
NextIn(data, i, set) ==
    CHOOSE m \in i..(Len(data) + 1) :
        /\ m = Len(data) + 1 \/ data[m] \in set
        /\ \A o \in i..(m - 1) : data[o] \notin set

\* the last index of the run of whitespace that starts at i (i - 1 if
\* data[i] is no whitespace)
SpaceRunEnd(data, i) ==
    CHOOSE e \in (i - 1)..Len(data) :
        /\ e = Len(data) \/ ~IsSpace(data[e + 1])
        /\ \A o \in i..e : IsSpace(data[o])

\* regexp `\n\n`, replaced by "\n". The bytes before the next "\n" cannot
\* start a match and are copied at once; p is that "\n".
RECURSIVE ReplaceBlankLines(_, _, _)
ReplaceBlankLines(data, i, out) ==
    LET At(p) ==
            IF p > Len(data) THEN out \o SubSeq(data, i, Len(data))
            ELSE IF p < Len(data) /\ data[p + 1] = NL
                 THEN ReplaceBlankLines(data, p + 2,
                                        out \o SubSeq(data, i, p - 1) \o <<NL>>)
                 ELSE ReplaceBlankLines(data, p + 1, out \o SubSeq(data, i, p))
    IN  Then(NextIn(data, i, {NL}), At)

RemoveBlankLines(data) == ReplaceBlankLines(data, 1, << >>)

\* regexp `^\s+`, replaced by "": without the m flag ^ is the start of the
\* text only
StripLeading(data) == SubSeq(data, SpaceRunEnd(data, 1) + 1, Len(data))

\* regexp `\n\s+`, replaced by "\n": \s+ is greedy and takes the whole run
\* after the "\n" at p; a "\n" that no whitespace follows is copied
RECURSIVE ReplaceIndent(_, _, _)
ReplaceIndent(data, i, out) ==
    LET At(p) ==
            IF p > Len(data) THEN out \o SubSeq(data, i, Len(data))
            ELSE LET After(e) == ReplaceIndent(data, e + 1,
                                               out \o SubSeq(data, i, p))
                 IN  Then(SpaceRunEnd(data, p + 1), After)
    IN  Then(NextIn(data, i, {NL}), At)

StripIndent(data) == ReplaceIndent(data, 1, << >>)

\* the last line terminator among data[i..e], 0 if there is none
LastNL(data, i, e) ==
    LET nls == {m \in i..e : data[m] = NL}
    IN  IF nls = {} THEN 0 ELSE CHOOSE m \in nls : \A o \in nls : o <= m

\* regexp `\s*\n`, replaced by " ": at the start p of a run of whitespace
\* (that ends at e) the greedy \s* takes the whole run and backtracks to
\* the last "\n" in it, at n; a run without "\n" holds no match and is
\* copied
RECURSIVE ReplaceLineEnds(_, _, _)
ReplaceLineEnds(data, i, out) ==
    LET At(p) ==
            IF p > Len(data) THEN out \o SubSeq(data, i, Len(data))
            ELSE LET Run(e) ==
                         LET Last(n) ==
                                 IF n > 0
                                 THEN ReplaceLineEnds(data, n + 1,
                                          out \o SubSeq(data, i, p - 1)
                                              \o <<SP>>)
                                 ELSE ReplaceLineEnds(data, e + 1,
                                          out \o SubSeq(data, i, e))
                         IN  Then(LastNL(data, p, e), Last)
                 IN  Then(SpaceRunEnd(data, p), Run)
    IN  Then(NextIn(data, i, Whitespace), At)

JoinLines(data) == ReplaceLineEnds(data, 1, << >>)

\* lines 78-94 in order
Normalize(raw) ==
    Then(Then(Then(RemoveBlankLines(raw), StripLeading), StripIndent),
         JoinLines)

(***************************************************************************)
(* formatText, lines 96-110: the chunking and the join.                    *)
(***************************************************************************)
\* what a panicking statement yields (a slice bounds out of range)
Panic == [ok |-> FALSE]

\* a byte of the backing array past len(data): its value is not known
Junk == "?"

\* Go's data[i:j] is legal iff 0 <= i <= j <= cap(data)
SliceOK(i, j, capacity) == 0 <= i /\ i <= j /\ j <= capacity

\* data[i:j]: the bytes i .. j-1 (counted from 0); past len(data), and
\* within the capacity, the bytes of the backing array
Slice(data, i, j) ==
    [x \in 1..(j - i) |-> IF i + x <= Len(data) THEN data[i + x] ELSE Junk]

\* the for loop of lines 99-106, entered with k, i, j; yields Panic or
\* the slots filled and the value of i after the loop
RECURSIVE ChunkLoop(_, _, _, _, _, _)
ChunkLoop(data, capacity, intermediate, k, i, j) ==
    IF ~(k < Len(intermediate))
    THEN [ok |-> TRUE, intermediate |-> intermediate, i |-> i]
    ELSE IF ~SliceOK(i, j, capacity) THEN Panic
    ELSE LET Pass(filled) ==
                 IF j + LineWidth >= Len(data)
                 THEN [ok |-> TRUE, intermediate |-> filled,
                       i |-> i + LineWidth]
                 ELSE ChunkLoop(data, capacity, filled, k + 1,
                                i + LineWidth, j + LineWidth)
         IN  Then([intermediate EXCEPT ![k + 1] = Slice(data, i, j)], Pass)

\* lines 97-107: Panic, or the value of intermediate after line 107
Chunk(data, capacity) ==
    LET slots == [x \in 1..(1 + (Len(data) \div LineWidth)) |-> << >>]
        After(loop) ==
            IF ~loop.ok THEN Panic
            ELSE IF ~SliceOK(loop.i, Len(data), capacity) THEN Panic
            ELSE [ok |-> TRUE,
                  intermediate |->
                      [loop.intermediate EXCEPT
                          ![Len(slots)] = Slice(data, loop.i, Len(data))]]
    IN  Then(ChunkLoop(data, capacity, slots, 0, 0, LineWidth), After)

\* mutant: a space is put before every separator
RECURSIVE JoinSpaced(_, _)
JoinSpaced(s, sep) ==
    IF Len(s) = 0 THEN << >>
    ELSE IF Len(s) = 1 THEN s[1]
    ELSE s[1] \o <<SP>> \o sep \o JoinSpaced(Tail(s), sep)

\* bytes.Join(s, sep), line 110
RECURSIVE Join(_, _)
Join(s, sep) ==
    IF Len(s) = 0 THEN << >>
    ELSE IF Len(s) = 1 THEN s[1]
    ELSE s[1] \o sep \o Join(Tail(s), sep)

\* the capacities the slice returned by the last ReplaceAll may have: its
\* length, or more (append's growth); the model takes one of each side of
\* LineWidth
Capacities(data) == {Len(data), Len(data) + LineWidth}

\* lines 96-110 on the rewritten text: Panic, or the value of result
Rechunk(data, capacity) ==
    LET Joined(chunks) ==
            IF ~chunks.ok THEN Panic
            ELSE [ok |-> TRUE, result |-> Join(chunks.intermediate, <<NL>>)]
    IN  Then(Chunk(data, capacity), Joined)

\* lines 78-110 on the bytes read: Panic, or the value sent at line 113
FormatText(raw, capacity) ==
    LET Rest(data) == Rechunk(data, capacity)
    IN  Then(Normalize(raw), Rest)

(***************************************************************************)
(* The state of a run.                                                     *)
(***************************************************************************)
VARIABLES
    eldritchTexts,  \* main: the list of file names (line 125)
    hplCh,          \* the channel of line 132: its capacity and its buffer
    mpc,            \* main: where it is
    idx,            \* main: the index of the loop it is in (lines 135, 141)
    arg,            \* writeFormattedText: its parameter data
    tpc,            \* formatText, per goroutine: where it is
    tdata,          \* formatText, per goroutine: its variable data / result
    stdout,         \* the lines printed, each by the length it states
    tmp,            \* the files of tmp/ written by the run: path -> bytes
    status,         \* the process: "running", "ok" (exit 0), "panic"
    sent,           \* history: the values sent on hplCh, in order
    rcvd,           \* history: the values received from hplCh, in order
    wrote,          \* history: the values WriteFile has persisted, in order
    errs,           \* history: the errors and runtime panics that occurred
    plan,           \* the scheduler: << >> when it is free, else the order
                    \* in which it lets the goroutines run their send
    fpc,            \* FormatSpec: where formatText is
    contents,       \* FormatSpec: the bytes ReadFile returned (line 75)
    data,           \* FormatSpec: formatText's variable data
    intermediate,   \* FormatSpec: formatText's variable intermediate
    result          \* FormatSpec: formatText's variable result

runVars == <<eldritchTexts, hplCh, mpc, idx, arg, tpc, tdata, stdout, tmp,
             status, sent, rcvd, wrote, errs, plan>>
fmtVars == <<fpc, contents, data, intermediate, result>>
vars == <<runVars, fmtVars>>

(***************************************************************************)
(* The assets directory. The three files of the repository are 249 kB,     *)
(* 155 kB and 70 kB of prose; the model keeps their order of size and      *)
(* gives them contents that the formatter rewrites, two of them of the     *)
(* same formatted length. Two further files stand for inputs of other      *)
(* shapes: one of exactly two lines, one shorter than a line.              *)
(***************************************************************************)
Catalogue ==
    << "at_the_mountains_of_madness.txt",
       "the_shadow_over_innsmouth.txt",
       "the_call_of_cthulhu.txt",
       "two_full_lines.txt",
       "a_short_note.txt" >>

Assets ==
    [f \in {Catalogue[x] : x \in 1..Len(Catalogue)} |->
        CASE f = "at_the_mountains_of_madness.txt" ->
                 Letters("a", LineWidth + 10) \o <<NL, NL, SP, SP>>
                     \o Letters("b", LineWidth + 4) \o <<SP, NL>>
          [] f = "the_shadow_over_innsmouth.txt" ->
                 Letters("c", LineWidth + 1) \o <<NL>>
          [] f = "the_call_of_cthulhu.txt" ->
                 Letters("d", LineWidth - 30) \o <<NL, TAB>>
                     \o Letters("e", 30) \o <<NL>>
          [] f = "two_full_lines.txt" ->
                 Letters("g", LineWidth) \o <<NL, NL>>
                     \o Letters("h", LineWidth - 2) \o <<NL>>
          [] f = "a_short_note.txt" ->
                 Letters("f", 5) \o <<NL>>]

\* the lists main() is run with: the files of the catalogue in its order,
\* any of them left out, at most MaxN of them
RECURSIVE SubLists(_)
SubLists(s) ==
    IF s = << >> THEN {<< >>}
    ELSE LET rest == SubLists(Tail(s))
         IN  rest \cup {<<Head(s)>> \o r : r \in rest}

InputLists == {s \in SubLists(Catalogue) : Len(s) <= MaxN}

\* no channel yet
NoChan == [cap |-> -1, buf |-> << >>]

\* no value held
None == [src |-> 0, bytes |-> << >>]

Tasks == 1..Len(eldritchTexts)

\* len(eldritchTexts), the bound of both loops of main and the capacity
NumTexts == Len(eldritchTexts)

InitRun ==
    /\ eldritchTexts \in InputLists
    /\ hplCh = NoChan
    /\ mpc = "make"
    /\ idx = 0
    /\ arg = None
    /\ tpc = [t \in 1..Len(eldritchTexts) |-> "idle"]
    /\ tdata = [t \in 1..Len(eldritchTexts) |-> << >>]
    /\ stdout = << >>
    /\ tmp = [p \in {} |-> << >>]
    /\ status = "running"
    /\ sent = << >>
    /\ rcvd = << >>
    /\ wrote = << >>
    /\ errs = {}

\* the Go scheduler: any goroutine that can run may run next
FreeScheduler == plan = << >>

FmtIdle ==
    /\ fpc = "off"
    /\ contents = << >>
    /\ data = << >>
    /\ intermediate = << >>
    /\ result = << >>

Init == InitRun /\ FreeScheduler /\ FmtIdle

(***************************************************************************)
(* must and the runtime's panic. A panic that no one recovers ends the     *)
(* process, all goroutines with it: the step that fails and the end of     *)
(* the process are one step of the model.                                  *)
(***************************************************************************)
Nil == "nil"

\* mutant: the error is dropped
MustIgnored(e) == status' = status

\* lines 67-71
Must(e) == status' = IF e # Nil THEN "panic" ELSE status

\* a slice bounds out of range at lines 100 or 107
RuntimePanic == status' = "panic"

Err(op, who) == [op |-> op, task |-> who]

(***************************************************************************)
(* The channel.                                                            *)
(***************************************************************************)
\* mutant: a buffer one slot short
MakeCapShort == NumTexts - 1

\* line 132: make(chan []byte, len(eldritchTexts))
MakeCap == NumTexts

\* a send proceeds when the buffer has room (a sender on a full buffer
\* waits)
CanSend(ch) == ch.cap >= 0 /\ Len(ch.buf) < ch.cap

ChanSend(ch, v) == [ch EXCEPT !.buf = Append(@, v)]

\* a receive proceeds when the buffer holds a value, and takes the oldest
CanReceive(ch) == ch.buf # << >>

\* mutant: the newest value is taken
ChanRecvNewest(ch) ==
    [val |-> ch.buf[Len(ch.buf)],
     ch |-> [ch EXCEPT !.buf = SubSeq(@, 1, Len(@) - 1)]]

\* mutant: the value received stays in the buffer
ChanRecvCopy(ch) == [val |-> Head(ch.buf), ch |-> ch]

ChanRecv(ch) == [val |-> Head(ch.buf), ch |-> [ch EXCEPT !.buf = Tail(@)]]

(***************************************************************************)
(* formatText: one goroutine per input, t its index in eldritchTexts.      *)
(***************************************************************************)
\* lines 74-76: ioutil.ReadFile and must
ReadFile(t) ==
    /\ status = "running"
    /\ tpc[t] = "read"
    /\ \E err \in {Nil, "read error"} :
          /\ Must(err)
          /\ IF err = Nil
             THEN /\ tdata' = [tdata EXCEPT ![t] = Assets[eldritchTexts[t]]]
                  /\ tpc' = [tpc EXCEPT ![t] = "format"]
                  /\ errs' = errs
             ELSE /\ errs' = errs \cup {Err("read", t)}
                  /\ UNCHANGED <<tdata, tpc>>
    /\ UNCHANGED <<plan, eldritchTexts, hplCh, mpc, idx, arg, stdout, tmp,
                   sent, rcvd, wrote, fmtVars>>

\* lines 78-110: the rewrites, the chunking and the join; they touch only
\* the goroutine's own variables
Format(t) ==
    /\ status = "running"
    /\ tpc[t] = "format"
    /\ \E capacity \in Then(Normalize(tdata[t]), Capacities) :
          \E out \in {FormatText(tdata[t], capacity)} :
              IF out.ok
              THEN /\ tdata' = [tdata EXCEPT ![t] = out.result]
                   /\ tpc' = [tpc EXCEPT ![t] = "send"]
                   /\ UNCHANGED <<status, errs>>
              ELSE /\ RuntimePanic
                   /\ errs' = errs \cup {Err("format", t)}
                   /\ UNCHANGED <<tdata, tpc>>
    /\ UNCHANGED <<plan, eldritchTexts, hplCh, mpc, idx, arg, stdout, tmp,
                   sent, rcvd, wrote, fmtVars>>

\* mutant: a goroutine sends only after those started before it
SendInOrder(t) ==
    /\ status = "running"
    /\ tpc[t] = "send"
    /\ \A u \in 1..(t - 1) : tpc[u] = "done"
    /\ Len(hplCh.buf) < hplCh.cap
    /\ LET v == [src |-> t, bytes |-> tdata[t]]
       IN  /\ hplCh' = [hplCh EXCEPT !.buf = Append(@, v)]
           /\ sent' = Append(sent, v)
    /\ tpc' = [tpc EXCEPT ![t] = "done"]
    /\ UNCHANGED <<plan, eldritchTexts, mpc, idx, arg, tdata, stdout, tmp, status,
                   rcvd, wrote, errs, fmtVars>>

\* line 113: hplCh <- result. src names the sender; the program sends the
\* bytes only.
Send(t) ==
    /\ status = "running"
    /\ tpc[t] = "send"
    /\ CanSend(hplCh)
    /\ LET v == [src |-> t, bytes |-> tdata[t]]
       IN  /\ hplCh' = ChanSend(hplCh, v)
           /\ sent' = Append(sent, v)
    /\ tpc' = [tpc EXCEPT ![t] = "done"]
    /\ UNCHANGED <<plan, eldritchTexts, mpc, idx, arg, tdata, stdout, tmp, status,
                   rcvd, wrote, errs, fmtVars>>

TaskStep(t) ==
    /\ t \in Tasks
    /\ (ReadFile(t) \/ Format(t) \/ Send(t))

(***************************************************************************)
(* main and writeFormattedText.                                            *)
(***************************************************************************)
\* line 132
MakeChan ==
    /\ status = "running"
    /\ mpc = "make"
    /\ hplCh' = [cap |-> MakeCap, buf |-> << >>]
    /\ mpc' = "spawn"
    /\ idx' = 0
    /\ UNCHANGED <<plan, eldritchTexts, arg, tpc, tdata, stdout, tmp, status,
                   sent, rcvd, wrote, errs, fmtVars>>

\* lines 135-137: one pass of the loop, go formatText(filename, hplCh)
Spawn ==
    /\ status = "running"
    /\ mpc = "spawn"
    /\ idx < NumTexts
    /\ tpc' = [tpc EXCEPT ![idx + 1] = "read"]
    /\ idx' = idx + 1
    /\ UNCHANGED <<plan, eldritchTexts, hplCh, mpc, arg, tdata, stdout, tmp,
                   status, sent, rcvd, wrote, errs, fmtVars>>

\* line 135: the range is exhausted; line 141: i := 0
SpawnEnd ==
    /\ status = "running"
    /\ mpc = "spawn"
    /\ idx = NumTexts
    /\ mpc' = "recv"
    /\ idx' = 0
    /\ UNCHANGED <<plan, eldritchTexts, hplCh, arg, tpc, tdata, stdout, tmp,
                   status, sent, rcvd, wrote, errs, fmtVars>>

\* mutants: the second loop makes one pass too few, one too many
DrainOneLess == NumTexts - 1

DrainOneMore == NumTexts + 1

\* line 141: the number of passes of the second loop
DrainCount == NumTexts

\* mutant: main receives only once every goroutine has sent
ReceiveAfterAll ==
    /\ status = "running"
    /\ mpc = "recv"
    /\ idx < DrainCount
    /\ \A t \in Tasks : tpc[t] = "done"
    /\ hplCh.buf # << >>
    /\ arg' = Head(hplCh.buf)
    /\ hplCh' = [hplCh EXCEPT !.buf = Tail(@)]
    /\ rcvd' = Append(rcvd, Head(hplCh.buf))
    /\ mpc' = "print"
    /\ UNCHANGED <<plan, eldritchTexts, idx, tpc, tdata, stdout, tmp, status,
                   sent, wrote, errs, fmtVars>>

\* line 142: <-hplCh, the value passed to writeFormattedText
Receive ==
    /\ status = "running"
    /\ mpc = "recv"
    /\ idx < DrainCount
    /\ CanReceive(hplCh)
    /\ LET r == ChanRecv(hplCh)
       IN  /\ arg' = r.val
           /\ hplCh' = r.ch
           /\ rcvd' = Append(rcvd, r.val)
    /\ mpc' = "print"
    /\ UNCHANGED <<plan, eldritchTexts, idx, tpc, tdata, stdout, tmp, status,
                   sent, wrote, errs, fmtVars>>

\* line 117: fmt.Printf("Writing file of length: %d\n", len(data))
PrintLength ==
    /\ status = "running"
    /\ mpc = "print"
    /\ stdout' = Append(stdout, Len(arg.bytes))
    /\ mpc' = "write"
    /\ UNCHANGED <<plan, eldritchTexts, hplCh, idx, arg, tpc, tdata, tmp, status,
                   sent, rcvd, wrote, errs, fmtVars>>

\* mutant: the name is made of the content
OutPathByContent(bytes) == <<"tmp/", bytes, ".txt">>

\* line 118: fmt.Sprintf("tmp/%d.txt", len(data)); %d of two lengths is
\* the same text only for the same length
OutPath(bytes) == <<"tmp/", Len(bytes), ".txt">>

\* the files after path has been created or truncated and bytes written
Store(files, path, bytes) ==
    [p \in DOMAIN files \cup {path} |-> IF p = path THEN bytes ELSE files[p]]

\* mutant: a WriteFile that fails removes the outputs written so far
FailedWritesRollback(files, path) == {[p \in {} |-> << >>]}

\* what a WriteFile that fails may leave: nothing changed (the open
\* failed), or the file created or truncated and not written
FailedWrites(files, path) == {files, Store(files, path, << >>)}

\* lines 119-120: ioutil.WriteFile and must; line 141: i++
WriteFile ==
    /\ status = "running"
    /\ mpc = "write"
    /\ \E err \in {Nil, "write error"} :
          /\ Must(err)
          /\ IF err = Nil
             THEN /\ tmp' = Store(tmp, OutPath(arg.bytes), arg.bytes)
                  /\ wrote' = Append(wrote, arg)
                  /\ idx' = idx + 1
                  /\ mpc' = "recv"
                  /\ errs' = errs
             ELSE /\ tmp' \in FailedWrites(tmp, OutPath(arg.bytes))
                  /\ errs' = errs \cup {Err("write", 0)}
                  /\ UNCHANGED <<wrote, idx, mpc>>
    /\ UNCHANGED <<plan, eldritchTexts, hplCh, arg, tpc, tdata, stdout, sent,
                   rcvd, fmtVars>>

\* mutant: the file is written first and the line printed after
WriteThenPrint ==
    \/ /\ status = "running"
       /\ mpc = "print"
       /\ tmp' = Store(tmp, OutPath(arg.bytes), arg.bytes)
       /\ wrote' = Append(wrote, arg)
       /\ mpc' = "write"
       /\ UNCHANGED <<plan, eldritchTexts, hplCh, idx, arg, tpc, tdata, stdout,
                      status, sent, rcvd, errs, fmtVars>>
    \/ /\ status = "running"
       /\ mpc = "write"
       /\ stdout' = Append(stdout, Len(arg.bytes))
       /\ idx' = idx + 1
       /\ mpc' = "recv"
       /\ UNCHANGED <<plan, eldritchTexts, hplCh, arg, tpc, tdata, tmp, status,
                      sent, rcvd, wrote, errs, fmtVars>>

\* lines 116-121
WriteFormattedText == PrintLength \/ WriteFile

\* mutant: the loop condition is tested after the first pass only
ReturnAfterFirstPass ==
    /\ status = "running"
    /\ mpc = "recv"
    /\ idx > 0
    /\ ~(idx < DrainCount)
    /\ mpc' = "exit"
    /\ status' = "ok"
    /\ UNCHANGED <<plan, eldritchTexts, hplCh, idx, arg, tpc, tdata, stdout, tmp,
                   sent, rcvd, wrote, errs, fmtVars>>

\* mutant: main returns when the channel is empty
ReturnWhenEmpty ==
    /\ status = "running"
    /\ mpc = "recv"
    /\ ~(idx < DrainCount) \/ hplCh.buf = << >>
    /\ mpc' = "exit"
    /\ status' = "ok"
    /\ UNCHANGED <<plan, eldritchTexts, hplCh, idx, arg, tpc, tdata, stdout, tmp,
                   sent, rcvd, wrote, errs, fmtVars>>

\* lines 141, 144: the loop is over, main returns and the process exits
\* with status 0
Return ==
    /\ status = "running"
    /\ mpc = "recv"
    /\ ~(idx < DrainCount)
    /\ mpc' = "exit"
    /\ status' = "ok"
    /\ UNCHANGED <<plan, eldritchTexts, hplCh, idx, arg, tpc, tdata, stdout, tmp,
                   sent, rcvd, wrote, errs, fmtVars>>

MainStep ==
    \/ MakeChan
    \/ Spawn
    \/ SpawnEnd
    \/ Receive
    \/ WriteFormattedText
    \/ Return

Next ==
    \/ MainStep
    \/ \E t \in Tasks : TaskStep(t)

Spec == Init /\ [][Next]_vars

(***************************************************************************)
(* Fairness. The Go scheduler runs every goroutine that can run; a         *)
(* goroutine stops only at a blocking operation (the receive on an empty   *)
(* channel, the send on a full one).                                       *)
(***************************************************************************)
\* every goroutine that can take a step eventually takes one
SpecFair ==
    /\ Spec
    /\ WF_vars(MainStep)
    /\ \A t \in 1..Len(Catalogue) : WF_vars(TaskStep(t))

\* the main goroutine is scheduled; a formatText goroutine may hang (a
\* read that never returns) or be arbitrarily slow
SpecCollector == Spec /\ WF_vars(MainStep)

(***************************************************************************)
(* One schedule per order. The scheduler decides which goroutine runs; in  *)
(* SpecPlanned it has picked, at the start, an order of the goroutines     *)
(* and lets them run their send in that order; the reads and writes of     *)
(* the run succeed. The program is not changed: every step is a step of    *)
(* Next, so a behaviour of SpecPlanned is a behaviour of Spec under one    *)
(* particular schedule, and what every planned run reaches, some run of    *)
(* the program reaches for every plan.                                     *)
(***************************************************************************)
\* the orders of the goroutines 1..n
Orders(n) ==
    {p \in [1..n -> 1..n] : \A x, y \in 1..n : p[x] = p[y] => x = y}

InitPlanned ==
    /\ InitRun
    /\ FmtIdle
    /\ plan \in Orders(Len(eldritchTexts))

\* goroutine t is the next of the plan to send
Scheduled(t) == tpc[t] = "send" => plan[Len(sent) + 1] = t

\* no read and no write fails in the step
NoIOError == \A e \in errs' : e.op = "format"

PlannedMain == MainStep /\ NoIOError

PlannedTask(t) == t \in Tasks /\ Scheduled(t) /\ TaskStep(t) /\ NoIOError

PlannedNext ==
    \/ PlannedMain
    \/ \E t \in Tasks : PlannedTask(t)

SpecPlanned ==
    /\ InitPlanned
    /\ [][PlannedNext]_vars
    /\ WF_vars(PlannedMain)
    /\ \A t \in 1..Len(Catalogue) : WF_vars(PlannedTask(t))

(***************************************************************************)
(* FormatSpec: formatText on one input, after the read, one statement a    *)
(* step.                                                                   *)
(***************************************************************************)
Alphabet == {"a", SP, NL, TAB}

\* every text over Alphabet of at most MaxRawLen bytes
ShortTexts ==
    UNION {[1..n -> Alphabet] : n \in 0..MaxRawLen}

\* texts of every length around the multiples of LineWidth, without
\* whitespace and with a final line terminator
LongTexts ==
    LET lengths == 0..(MaxLines * LineWidth + 1)
    IN  {Letters("x", n) : n \in lengths}
            \cup {Letters("y", n) \o <<NL>> : n \in lengths}

\* texts of several lines, indented, with blank lines and with runs of
\* spaces inside a line and before a line terminator
WordTexts ==
    {<<TAB>> \o Letters("w", 40) \o <<SP, SP>> \o Letters("v", n)
         \o <<SP, NL, NL, NL>> \o Letters("u", 30) \o <<NL>> :
             n \in 0..(MaxLines * LineWidth + 1)}

\* "Hello,\n\n   world!\n  this is   \nconcurrency.\n"
SampleText ==
    <<"H", "e", "l", "l", "o", ",", NL, NL, SP, SP, SP, "w", "o", "r", "l",
       "d", "!", NL, SP, SP, "t", "h", "i", "s", SP, "i", "s", SP, SP, SP,
       NL, "c", "o", "n", "c", "u", "r", "r", "e", "n", "c", "y", ".", NL >>

RawInputs == ShortTexts \cup LongTexts \cup WordTexts \cup {SampleText}

\* the state after the ReadFile of line 75 has returned the bytes of data;
\* no run of main
FmtInitial ==
    /\ fpc = "blank"
    /\ contents \in RawInputs
    /\ data = contents
    /\ intermediate = << >>
    /\ result = << >>
    /\ eldritchTexts = << >>
    /\ hplCh = NoChan
    /\ mpc = "make"
    /\ idx = 0
    /\ arg = None
    /\ tpc = << >>
    /\ tdata = << >>
    /\ stdout = << >>
    /\ tmp = [p \in {} |-> << >>]
    /\ status = "running"
    /\ sent = << >>
    /\ rcvd = << >>
    /\ wrote = << >>
    /\ errs = {}
    /\ plan = << >>

\* lines 79-81
FmtRemoveBlankLines ==
    /\ fpc = "blank"
    /\ data' = RemoveBlankLines(data)
    /\ fpc' = "lead"
    /\ UNCHANGED <<contents, intermediate, result, runVars>>

\* lines 84-86
FmtStripLeading ==
    /\ fpc = "lead"
    /\ data' = StripLeading(data)
    /\ fpc' = "indent"
    /\ UNCHANGED <<contents, intermediate, result, runVars>>

\* lines 88-90
FmtStripIndent ==
    /\ fpc = "indent"
    /\ data' = StripIndent(data)
    /\ fpc' = "lines"
    /\ UNCHANGED <<contents, intermediate, result, runVars>>

\* lines 92-94
FmtJoinLines ==
    /\ fpc = "lines"
    /\ data' = JoinLines(data)
    /\ fpc' = "chunk"
    /\ UNCHANGED <<contents, intermediate, result, runVars>>

\* lines 97-107
FmtChunk ==
    /\ fpc = "chunk"
    /\ \E capacity \in Capacities(data) :
          LET chunks == Chunk(data, capacity)
          IN  IF chunks.ok
              THEN /\ intermediate' = chunks.intermediate
                   /\ fpc' = "join"
              ELSE /\ intermediate' = intermediate
                   /\ fpc' = "panic"
    /\ UNCHANGED <<contents, data, result, runVars>>

\* line 110; the goroutine is then at the send of line 113
FmtJoin ==
    /\ fpc = "join"
    /\ result' = Join(intermediate, <<NL>>)
    /\ fpc' = "send"
    /\ UNCHANGED <<contents, data, intermediate, runVars>>

FmtNext ==
    \/ FmtRemoveBlankLines
    \/ FmtStripLeading
    \/ FmtStripIndent
    \/ FmtJoinLines
    \/ FmtChunk
    \/ FmtJoin

FormatSpec == FmtInitial /\ [][FmtNext]_vars

(***************************************************************************)
(* Properties.                                                             *)
(***************************************************************************)
\* the goroutines that produced the values of a history
Srcs(h) == {h[x].src : x \in 1..Len(h)}

IsPrefix(a, b) == Len(a) <= Len(b) /\ SubSeq(b, 1, Len(a)) = a

\* what formatText sends for input t when it does not panic
FormattedOf(t) ==
    LET raw == Assets[eldritchTexts[t]]
    IN  FormatText(raw, Len(Normalize(raw)) + LineWidth)

WithoutNL(bytes) == SelectSeq(bytes, LAMBDA c : c # NL)

\* C1: at every moment (values received) <= (values sent) <= N, every
\* value received is written before the next is received, and when main
\* returns exactly N values have been sent, N received and N written, and
\* nothing has failed.
C1_Counts ==
    /\ Len(rcvd) <= Len(sent)
    /\ Len(sent) <= NumTexts
    /\ Len(wrote) <= Len(rcvd)
    /\ Len(rcvd) <= Len(wrote) + 1
    /\ status = "ok" =>
          /\ Len(sent) = NumTexts
          /\ Len(rcvd) = NumTexts
          /\ Len(wrote) = NumTexts
          /\ wrote = rcvd
          /\ errs = {}

\* a run over several inputs has returned
C1_Witness == status = "ok" /\ NumTexts > 1 /\ Len(wrote) = NumTexts

\* C2: the channel is first-in first-out and loses nothing: the values
\* sent are those received followed by those still buffered, in order, so
\* the values handed to the write step are a prefix of the values sent;
\* no goroutine's value occurs twice, each value is the formatted content
\* of its sender's input, and when main returns every input's value has
\* been written exactly once.
C2_FifoLossless ==
    /\ sent = rcvd \o hplCh.buf
    /\ IsPrefix(rcvd, sent)
    /\ IsPrefix(wrote, rcvd)
    /\ \A x, y \in 1..Len(sent) : sent[x].src = sent[y].src => x = y
    /\ \A x \in 1..Len(sent) :
          /\ sent[x].src \in Tasks
          /\ FormattedOf(sent[x].src).ok
          /\ sent[x].bytes = FormattedOf(sent[x].src).result
    /\ status = "ok" => Srcs(wrote) = Tasks /\ Len(wrote) = NumTexts

\* two values wait in the buffer while main has already received one
C2_Witness == Len(rcvd) >= 1 /\ Len(hplCh.buf) >= 2

\* C3: the channel exists, with capacity N, before any goroutine is
\* started; it never holds more than N values; a goroutine that is at its
\* send always finds room, whatever main has received so far.
C3_NeverBlocked ==
    /\ hplCh = NoChan => \A t \in Tasks : tpc[t] = "idle"
    /\ hplCh # NoChan => hplCh.cap = NumTexts /\ Len(hplCh.buf) <= NumTexts
    /\ \A t \in Tasks : tpc[t] = "send" => CanSend(hplCh)

\* the last goroutine is at its send, all others have sent, main has
\* received nothing
C3_Witness ==
    /\ NumTexts >= 2
    /\ Len(rcvd) = 0
    /\ Len(hplCh.buf) = NumTexts - 1
    /\ \E t \in Tasks : tpc[t] = "send"

\* the goroutines whose values were written, in the order of the writes
WriteOrder == [x \in 1..Len(wrote) |-> wrote[x].src]

\* C4 (under SpecPlanned): for every order of the N goroutines, the run
\* whose scheduler lets them finish in that order (and whose formatting
\* does not panic) returns with all N values written in exactly that
\* order; and the writes always follow the order of the sends, never the
\* order in which the goroutines were started.
C4_EveryOrderReached ==
    /\ [](\A x \in 1..Len(wrote) : wrote[x].src = sent[x].src)
    /\ <>(\/ status = "ok" /\ WriteOrder = plan /\ Len(wrote) = NumTexts
          \/ \E e \in errs : e.op = "format")

\* three inputs, written last-started first
C4_Witness ==
    /\ status = "ok"
    /\ NumTexts = 3
    /\ plan = <<3, 2, 1>>
    /\ WriteOrder = <<3, 2, 1>>

\* C5 (under SpecFair): a run in which nothing fails eventually returns
\* with all N values written.
C5_Terminates ==
    <>(errs # {} \/ (status = "ok" /\ Len(wrote) = NumTexts))

\* main waits at its last receive while a goroutine has yet to read
C5_Witness ==
    /\ status = "running"
    /\ NumTexts >= 2
    /\ mpc = "recv"
    /\ idx = NumTexts - 1
    /\ hplCh.buf = << >>
    /\ \E t \in Tasks : tpc[t] = "read"

C7_CollectsCompleted ==
    /\ \A k \in 1..Len(Catalogue) :
          (Len(sent) >= k) ~> (Len(wrote) >= k \/ status = "panic")
    /\ [](( /\ status = "running"
            /\ mpc = "recv"
            /\ Len(rcvd) = Len(sent)
            /\ Len(sent) < NumTexts ) => ~ENABLED MainStep)
    /\ [][status' = "ok" /\ status # "ok" => Len(sent) = NumTexts]_vars

\* main has written what was sent and waits, a goroutine has not yet
\* formatted
C7_Witness ==
    /\ status = "running"
    /\ mpc = "recv"
    /\ Len(wrote) >= 1
    /\ Len(wrote) = Len(sent)
    /\ Len(sent) < NumTexts
    /\ \E t \in Tasks : tpc[t] \in {"read", "format"}

\* the lengths of the values written
WrittenLengths == {Len(wrote[x].bytes) : x \in 1..Len(wrote)}

\* C8: the path of an output depends on its length only: values of the
\* same length go to the same path; while nothing has failed the files
\* are exactly the paths of the values written, each holding the last
\* value written of its length; after a run that returns the number of
\* files is the number of distinct lengths, less than N when two lengths
\* coincide.
C8_PathByLength ==
    /\ \A x, y \in 1..Len(wrote) :
          Len(wrote[x].bytes) = Len(wrote[y].bytes)
              <=> OutPath(wrote[x].bytes) = OutPath(wrote[y].bytes)
    /\ errs = {} =>
          /\ DOMAIN tmp = {OutPath(wrote[x].bytes) : x \in 1..Len(wrote)}
          /\ \A x \in 1..Len(wrote) :
                (\A y \in (x + 1)..Len(wrote) :
                    Len(wrote[y].bytes) # Len(wrote[x].bytes))
                    => tmp[OutPath(wrote[x].bytes)] = wrote[x].bytes
    /\ status = "ok" =>
          /\ Cardinality(DOMAIN tmp) = Cardinality(WrittenLengths)
          /\ (\E x, y \in 1..Len(wrote) :
                 x # y /\ Len(wrote[x].bytes) = Len(wrote[y].bytes))
                 => Cardinality(DOMAIN tmp) < NumTexts

\* two different values of one length were written; the file holds the
\* later one
C8_Witness ==
    /\ status = "ok"
    /\ \E x, y \in 1..Len(wrote) :
          /\ x < y
          /\ Len(wrote[x].bytes) = Len(wrote[y].bytes)
          /\ wrote[x].bytes # wrote[y].bytes
          /\ tmp[OutPath(wrote[y].bytes)] = wrote[y].bytes
    /\ Cardinality(DOMAIN tmp) < NumTexts

\* C9 as stated: a line is printed only for a write that is completed, so
\* there are never more lines than completed writes, and a write that
\* fails leaves no line.
C9_ReportAfterWrite ==
    /\ Len(stdout) <= Len(wrote)
    /\ Err("write", 0) \in errs => Len(stdout) = Len(wrote)

\* C9 amended: the line is printed before the write is tried: there are
\* never fewer lines than completed writes and at most one more, the x-th
\* line states the length of the x-th value received, and a write that
\* fails has already printed its line.
C9_ReportBeforeWrite ==
    /\ Len(wrote) <= Len(stdout)
    /\ Len(stdout) <= Len(wrote) + 1
    /\ Len(stdout) <= Len(rcvd)
    /\ \A x \in 1..Len(stdout) : stdout[x] = Len(rcvd[x].bytes)
    /\ mpc = "write" => Len(stdout) = Len(wrote) + 1
    /\ Err("write", 0) \in errs => Len(stdout) = Len(wrote) + 1

\* a write failed after an earlier one had succeeded: its line is there
C9_Witness ==
    /\ Err("write", 0) \in errs
    /\ Len(wrote) >= 1
    /\ Len(stdout) = Len(wrote) + 1
    /\ stdout[Len(stdout)] = Len(arg.bytes)

\* C10 (under FormatSpec): when the text after the four rewrites has a
\* length that is a multiple of 70 (and is not empty), the result does not
\* end with a line terminator, its last segment is not empty, and the
\* segments put together are the text.
C10_NoTrailingEmptySegment ==
    (fpc = "send" /\ Len(data) > 0 /\ Len(data) % LineWidth = 0) =>
        /\ result[Len(result)] # NL
        /\ intermediate[Len(intermediate)] # << >>
        /\ WithoutNL(result) = data

\* C11 (under FormatSpec): for every file content, those whose text after
\* the rewrites is empty or shorter than 70 bytes included, formatText
\* produces a result, and the result without its line terminators is the
\* text after the rewrites.
C11_RejoinIsText ==
    fpc \in {"panic", "send"} =>
        /\ fpc = "send"
        /\ WithoutNL(result) = data

\* C12 (under FormatSpec): the statements after the read never panic,
\* whatever the length of the text after the rewrites.
C12_FormatterTotal == fpc # "panic"

\* C13 (under FormatSpec): the four rewrites turn the sample text into
\* "Hello, world! this is concurrency.", which neither starts nor ends
\* with whitespace.
C13_SampleNormalized ==
    LET expected ==
            <<"H", "e", "l", "l", "o", ",", SP, "w", "o", "r", "l", "d",
              "!", SP, "t", "h", "i", "s", SP, "i", "s", SP, "c", "o", "n",
              "c", "u", "r", "r", "e", "n", "c", "y", "." >>
    IN  (contents = SampleText /\ fpc = "chunk") =>
            /\ data = expected
            /\ ~IsSpace(data[1])
            /\ ~IsSpace(data[Len(data)])

\* C14 (under FormatSpec): when formatText has produced a result, the
\* result without its line terminators is a text that the four rewrites
\* leave as it is (it is the text after the rewrites of the first run),
\* and formatting it again, whatever the capacity of the slice, gives the
\* same segments and the same result, byte for byte.
C14_Idempotent ==
    fpc = "send" =>
        LET again == WithoutNL(result)
        IN  /\ Normalize(again) = data
            /\ \A capacity \in Capacities(data) :
                   /\ Chunk(Normalize(again), capacity).ok
                   /\ Chunk(Normalize(again), capacity).intermediate
                          = intermediate
                   /\ FormatText(again, capacity).ok
                   /\ FormatText(again, capacity).result = result

\* a text of several lines with blank lines, indentation and runs of
\* spaces has been formatted into three segments or more
C14_Witness ==
    /\ fpc = "send"
    /\ contents \in WordTexts
    /\ data # contents
    /\ Len(intermediate) >= 3
    /\ \E x \in 1..(Len(data) - 1) : data[x] = SP /\ data[x + 1] = SP

\* C15 (under SpecFair): in a run over no input the channel is made with
\* capacity 0, there is no goroutine, nothing is ever sent, received,
\* printed or written and nothing fails; main is never blocked (at the
\* head of the second loop it returns at once, no receive is possible),
\* and the run ends with exit status 0.
C15_EmptyRun ==
    /\ [](NumTexts = 0 =>
             /\ hplCh \in {NoChan, [cap |-> 0, buf |-> << >>]}
             /\ mpc # "make" => hplCh.cap = 0
             /\ tpc = << >>
             /\ sent = << >> /\ rcvd = << >> /\ wrote = << >>
             /\ stdout = << >>
             /\ DOMAIN tmp = {}
             /\ errs = {}
             /\ mpc \in {"make", "spawn", "recv", "exit"}
             /\ status = "running" => ENABLED MainStep
             /\ mpc = "recv" => ENABLED Return /\ ~ENABLED Receive)
    /\ (NumTexts = 0) ~> (status = "ok" /\ mpc = "exit")

\* the run over no input has returned
C15_Witness ==
    /\ NumTexts = 0
    /\ status = "ok"
    /\ hplCh = [cap |-> 0, buf |-> << >>]
    /\ DOMAIN tmp = {}

\* C16 (under FormatSpec): when the text after the rewrites has one byte
\* or more, the chunking yields segments of which every one but the last
\* has exactly 70 bytes and the last has between 1 and 70 bytes.
C16_SegmentLengths ==
    (fpc \in {"join", "send"} /\ Len(data) >= 1) =>
        /\ \A k \in 1..(Len(intermediate) - 1) :
               Len(intermediate[k]) = LineWidth
        /\ Len(intermediate[Len(intermediate)]) \in 1..LineWidth

\* C17 (under FormatSpec): the text after the four rewrites holds no line
\* terminator and no two whitespace bytes in a row, whatever the file
\* content.
C17_SingleSpaces ==
    fpc = "chunk" =>
        /\ \A x \in 1..Len(data) : data[x] # NL
        /\ \A x \in 1..(Len(data) - 1) :
               ~(IsSpace(data[x]) /\ IsSpace(data[x + 1]))

\* Who holds the result of goroutine t. The goroutine holds it in its
\* variable result from the join of line 110 to the send of line 113,
\* after which it returns; the channel holds it in its buffer; main holds
\* it in the parameter data of writeFormattedText (lines 116-121), from the
\* receive of line 142 to the return of the call.
TaskHolds(t) == tpc[t] = "send"

QueueHolds(t) == \E x \in 1..Len(hplCh.buf) : hplCh.buf[x].src = t

CollectorHolds(t) == mpc \in {"print", "write"} /\ arg.src = t

Owners(t) ==
    {o \in {"task", "queue", "collector"} :
        \/ o = "task" /\ TaskHolds(t)
        \/ o = "queue" /\ QueueHolds(t)
        \/ o = "collector" /\ CollectorHolds(t)}

\* the result of goroutine t exists and its write has not been completed
Live(t) == tpc[t] \in {"send", "done"} /\ t \notin Srcs(wrote)

\* C18: in every state, a result that exists and is not yet written is
\* held by exactly one of its goroutine, the channel and main, and by the
\* channel in one slot only; any other has no holder; the holder has the
\* bytes the goroutine produced. A step of a goroutine changes nothing of
\* another goroutine and nothing of main: of what others can see, only the
\* channel, and only by its send.
C18_SingleOwner ==
    /\ [](\A t \in Tasks :
             /\ Cardinality(Owners(t)) = IF Live(t) THEN 1 ELSE 0
             /\ \A x, y \in 1..Len(hplCh.buf) :
                    (hplCh.buf[x].src = t /\ hplCh.buf[y].src = t) => x = y
             /\ \A x \in 1..Len(hplCh.buf) :
                    hplCh.buf[x].src = t => hplCh.buf[x].bytes = tdata[t]
             /\ CollectorHolds(t) => arg.bytes = tdata[t])
    /\ [][\A t \in Tasks :
             TaskStep(t) =>
                 /\ \A u \in Tasks \ {t} :
                        tpc'[u] = tpc[u] /\ tdata'[u] = tdata[u]
                 /\ UNCHANGED <<eldritchTexts, mpc, idx, arg, stdout, tmp>>
                 /\ hplCh' # hplCh => tpc[t] = "send"]_vars

\* three results, one held by its goroutine, about to send, one by the
\* channel and one by main
C18_Witness ==
    /\ NumTexts = 3
    /\ \E t, u, v \in Tasks :
          /\ Owners(t) = {"task"}
          /\ Owners(u) = {"queue"}
          /\ Owners(v) = {"collector"}

\* C19: the step in which the run is aborted removes no file and changes
\* no file, except that a WriteFile that fails may leave the one file it
\* was writing created or truncated; once the run is aborted the files
\* never change; an aborted run has completed at most N - 1 writes, and
\* the outputs of its completed writes are all present: when no write
\* failed, the files are exactly those written, each with the content
\* last written to it.
C19_NoCleanup ==
    /\ [][(status = "running" /\ status' = "panic") =>
             /\ DOMAIN tmp \subseteq DOMAIN tmp'
             /\ \A p \in DOMAIN tmp :
                    \/ tmp'[p] = tmp[p]
                    \/ /\ mpc = "write"
                       /\ p = OutPath(arg.bytes)
                       /\ Err("write", 0) \in errs'
                       /\ tmp'[p] = << >>
             /\ wrote' = wrote]_vars
    /\ [][status = "panic" => tmp' = tmp /\ wrote' = wrote]_vars
    /\ [](status = "panic" =>
             /\ Len(wrote) <= NumTexts - 1
             /\ \A x \in 1..Len(wrote) : OutPath(wrote[x].bytes) \in DOMAIN tmp
             /\ Err("write", 0) \notin errs =>
                    /\ DOMAIN tmp
                           = {OutPath(wrote[x].bytes) : x \in 1..Len(wrote)}
                    /\ \A x \in 1..Len(wrote) :
                           (\A y \in (x + 1)..Len(wrote) :
                               Len(wrote[y].bytes) # Len(wrote[x].bytes))
                               => tmp[OutPath(wrote[x].bytes)]
                                      = wrote[x].bytes)

\* the third of three writes failed: the two outputs written before are
\* there, with their contents
C19_Witness ==
    /\ status = "panic"
    /\ NumTexts = 3
    /\ Err("write", 0) \in errs
    /\ Len(wrote) = 2
    /\ OutPath(wrote[1].bytes) # OutPath(wrote[2].bytes)
    /\ \A x \in 1..2 : tmp[OutPath(wrote[x].bytes)] = wrote[x].bytes

\* C20: when main has returned, the channel is empty, every one of the N
\* goroutines has sent, once, and is past its send: none is still to be
\* started, reading, formatting or waiting at its send; the step by which
\* main returns is taken only in such a state.
C20_NoLeakedTask ==
    /\ [](status = "ok" =>
             /\ hplCh.buf = << >>
             /\ Len(sent) = NumTexts
             /\ Srcs(sent) = Tasks
             /\ \A t \in Tasks :
                    /\ tpc[t] \notin {"idle", "read", "format", "send"}
                    /\ tpc[t] = "done"
                    /\ ~ENABLED TaskStep(t))
    /\ [][(status # "ok" /\ status' = "ok") =>
             /\ hplCh.buf = << >>
             /\ \A t \in Tasks : tpc[t] = "done"]_vars

\* main has returned from a run over three inputs, the last value sent
\* by the goroutine started first
C20_Witness ==
    /\ status = "ok"
    /\ NumTexts = 3
    /\ hplCh.buf = << >>
    /\ sent[3].src = 1
    /\ \A t \in Tasks : tpc[t] = "done"

=============================================================================
